---- MODULE Spec2Model ----
(***************************************************************************)
(* ParentModelAdmin of proxy_admin.py: the lazy registration of the child  *)
(* admins and the dispatch of the add / change / subclass views to them.   *)
(* Python 2 / Django 1.x semantics (the module uses long() and             *)
(* django.core.urlresolvers).                                              *)
(***************************************************************************)
EXTENDS Integers, Sequences, FiniteSets, TLC

\* ---------------------------------------------------------------- bounds
\* Longest child_models configuration that is enumerated.
MaxChildren == 2
\* Type values are 0..MaxType; 0 is what request.GET.get('type', 0) defaults to.
MaxType == 2

TypeValues == 0..MaxType

\* Model classes that can be handed to the admin: A and B are proxies of
\* base_model, Other is an unrelated model.
Models == {"A", "B", "Other"}
AllModels == Models \cup {"Base"}
\* Admin classes: ProxyAdmin is an ordinary admin.ModelAdmin subclass,
\* ChildModelAdmin is the class of this module, NotAdmin is no ModelAdmin.
AdminClasses == {"ProxyAdmin", "ChildModelAdmin", "NotAdmin"}

\* issubclass(model, self.base_model)
IsProxyOfBase(model) == model \in {"A", "B"}
\* issubclass(model_admin, admin.ModelAdmin)
IsModelAdmin(model_admin) == model_admin \in {"ProxyAdmin", "ChildModelAdmin"}

\* ---------------------------------------------------------------- values
NoAdmin == [site |-> "-", model |-> "-", cls |-> "-"]
AdminInstance(site, model, cls) == [site |-> site, model |-> model, cls |-> cls]

\* The registry of the site the parent admin itself is registered on: the base
\* model with the parent admin, and proxy A with an admin of its own.
admin_site_registry ==
  [m \in AllModels |->
     IF m = "Base" THEN AdminInstance("parent", "Base", "ParentModelAdmin")
     ELSE IF m = "A" THEN AdminInstance("parent", "A", "SiteAdmin")
     ELSE NoAdmin]

EmptyRegistry == [m \in AllModels |-> NoAdmin]

\* model._meta.verbose_name
verbose_name(model) ==
  IF model = "A" THEN "proxy a" ELSE IF model = "B" THEN "proxy b" ELSE "other"

\* str.format of a type value / int() of a query parameter
Digits == <<"0", "1", "2", "3", "4", "5", "6", "7", "8", "9">>
IsDigit(s) == \E i \in 1..Len(Digits) : Digits[i] = s
DigitValue(s) == CHOOSE i \in 0..9 : Digits[i + 1] = s
FormatType(k) == IF k \in 0..9 THEN Digits[k + 1] ELSE "many"

\* ---------------------------------------------------------------- state
VARIABLES child_models, _is_setup, _child_registry, _child_models,
          attempted, req, out

vars == <<child_models, _is_setup, _child_registry, _child_models,
          attempted, req, out>>

\* ---------------------------------------------------------------- results
\* What a call ends in.  kind: "return" | "raise" | "delegate" | "redirect" |
\* "render" | "super"; the other fields are "-" / empty unless the kind sets them.
NoOut == [kind |-> "-", exc |-> "-", admin |-> NoAdmin, view |-> "-",
          object_id |-> "-", path |-> <<>>, url |-> <<>>, choices |-> <<>>,
          urls |-> <<>>]
Raise(exc) == [NoOut EXCEPT !.kind = "raise", !.exc = exc]
Return == [NoOut EXCEPT !.kind = "return"]

\* ---------------------------------------------------------------- configuration
\* One (key, (Model, Admin)) item of child_models.
\* The (Model, Admin) tuples that are configured: the two proxies with an ordinary
\* admin, and one of each misconfiguration register_child can meet.
ChildPairs == {<<"A", "ProxyAdmin">>, <<"B", "ProxyAdmin">>, <<"A", "ChildModelAdmin">>,
               <<"Other", "ProxyAdmin">>, <<"B", "NotAdmin">>}
Entry == {[key |-> k, model |-> c[1], admin |-> c[2]] : k \in TypeValues, c \in ChildPairs}
SeqsUpTo(S, n) == UNION {[1..k -> S] : k \in 0..n}
DistinctKeys(items) ==
  \A i, j \in 1..Len(items) : items[i].key = items[j].key => i = j
\* child_models is a class attribute: None (the default), a dictionary as the
\* class docstring says, or a sequence of (key, (Model, Admin)) pairs.
Configs ==
  {[shape |-> "none", items |-> <<>>]}
  \cup {[shape |-> "pairs", items |-> s] : s \in SeqsUpTo(Entry, MaxChildren)}
  \cup {[shape |-> "dict", items |-> s] :
          s \in {t \in SeqsUpTo(Entry, MaxChildren) : DistinctKeys(t)}}

\* get_child_models: "-" or the exception it raises.
get_child_models_exc(cm) == IF cm.shape = "none" THEN "NotImplementedError" ELSE "-"

\* `for key, (a, b) in child_models`: iterating a dictionary yields its keys, and
\* a key (an int) does not unpack into two names; a sequence of pairs does.
IterationExc(cm) ==
  IF cm.items = <<>> THEN "-"
  ELSE IF cm.shape = "dict" THEN "TypeError" ELSE "-"

\* DictOf with the first item of a key winning (a dictionary filled with
\* setdefault).
DictOf_first(items) ==
  [k \in {items[i].key : i \in 1..Len(items)} |->
     LET first == CHOOSE i \in 1..Len(items) :
                    /\ items[i].key = k
                    /\ \A j \in 1..Len(items) : items[j].key = k => i <= j
     IN [model |-> items[first].model, admin |-> items[first].admin]]

\* dict(child_models): the last item of a key wins.
DictOf(items) ==
  [k \in {items[i].key : i \in 1..Len(items)} |->
     LET last == CHOOSE i \in 1..Len(items) :
                   /\ items[i].key = k
                   /\ \A j \in 1..Len(items) : items[j].key = k => j <= i
     IN [model |-> items[last].model, admin |-> items[last].admin]]

\* ---------------------------------------------------------------- registration
\* AdminSite.register as register_child calls it: a model is registered once,
\* and the admin class is instantiated (ChildModelAdmin.__init__ calls
\* NotImplemented(), a TypeError).
site_register(model, model_admin, reg) ==
  IF reg[model] # NoAdmin THEN [exc |-> "AlreadyRegistered", reg |-> reg]
  ELSE IF model_admin = "ChildModelAdmin" THEN [exc |-> "TypeError", reg |-> reg]
  ELSE [exc |-> "-",
        reg |-> [reg EXCEPT ![model] = AdminInstance("child", model, model_admin)]]

\* register_child without the _is_setup check.
register_child_unguarded(model, model_admin, is_setup, reg) ==
  IF ~IsProxyOfBase(model) THEN [exc |-> "TypeError", reg |-> reg]
  ELSE IF ~IsModelAdmin(model_admin) THEN [exc |-> "TypeError", reg |-> reg]
  ELSE site_register(model, model_admin, reg)

register_child(model, model_admin, is_setup, reg) ==
  IF is_setup THEN [exc |-> "RuntimeError", reg |-> reg]
  ELSE IF ~IsProxyOfBase(model) THEN [exc |-> "TypeError", reg |-> reg]
  ELSE IF ~IsModelAdmin(model_admin) THEN [exc |-> "TypeError", reg |-> reg]
  ELSE site_register(model, model_admin, reg)

\* The loop of _lazy_setup leaving after its first item.
RegisterChildren_first(items, is_setup, reg) ==
  IF items = <<>> THEN [exc |-> "-", reg |-> reg]
  ELSE register_child(Head(items).model, Head(items).admin, is_setup, reg)

\* The loop of _lazy_setup: register the items in order, stop at the first
\* exception (what was registered before it stays registered).
RECURSIVE RegisterChildren(_, _, _)
RegisterChildren(items, is_setup, reg) ==
  IF items = <<>> THEN [exc |-> "-", reg |-> reg]
  ELSE LET r == register_child(Head(items).model, Head(items).admin, is_setup, reg)
       IN IF r.exc # "-" THEN r ELSE RegisterChildren(Tail(items), is_setup, r.reg)

\* complete_registry with the update the other way round: the site's admins win.
complete_registry_site_first(site_reg, child_reg) ==
  [m \in AllModels |-> IF site_reg[m] # NoAdmin THEN site_reg[m] ELSE child_reg[m]]

\* complete_registry = admin_site._registry.copy(); .update(child registry)
complete_registry(site_reg, child_reg) ==
  [m \in AllModels |-> IF child_reg[m] # NoAdmin THEN child_reg[m] ELSE site_reg[m]]

UnsetChildModels == [isset |-> FALSE, d |-> <<>>]

\* _lazy_setup on the state st = [is_setup, reg, cmodels]: the new state and the
\* exception that ended it ("-" when it returned).
_lazy_setup(cm, st) ==
  IF st.is_setup THEN [st |-> st, exc |-> "-"]
  ELSE IF get_child_models_exc(cm) # "-"
    THEN [st |-> st, exc |-> get_child_models_exc(cm)]
  ELSE IF IterationExc(cm) # "-" THEN [st |-> st, exc |-> IterationExc(cm)]
  ELSE LET r == RegisterChildren(cm.items, st.is_setup, st.reg)
       IN IF r.exc # "-"
            THEN [st |-> [st EXCEPT !.reg = r.reg], exc |-> r.exc]
            ELSE [st |-> [is_setup |-> TRUE,
                          reg |-> complete_registry(admin_site_registry, r.reg),
                          cmodels |-> [isset |-> TRUE, d |-> DictOf(cm.items)]],
                  exc |-> "-"]

\* get_child_type_choices: the (key, verbose_name) list, or the exception.
get_child_type_choices(cm) ==
  IF get_child_models_exc(cm) # "-"
    THEN [exc |-> get_child_models_exc(cm), choices |-> <<>>]
  ELSE IF IterationExc(cm) # "-" THEN [exc |-> IterationExc(cm), choices |-> <<>>]
  ELSE [exc |-> "-",
        choices |-> [i \in 1..Len(cm.items) |->
                       <<cm.items[i].key, verbose_name(cm.items[i].model)>>]]

\* _get_real_admin: the lookup in self._child_models is guarded by
\* `except IndexError`, the lookup in the registry by `except KeyError`.
_get_real_admin(type_value, cmodels, reg) ==
  IF ~cmodels.isset THEN [exc |-> "AttributeError", admin |-> NoAdmin]
  ELSE IF type_value \notin DOMAIN cmodels.d THEN [exc |-> "KeyError", admin |-> NoAdmin]
  ELSE IF reg[cmodels.d[type_value].model] = NoAdmin
    THEN [exc |-> "RuntimeError", admin |-> NoAdmin]
  ELSE [exc |-> "-", admin |-> reg[cmodels.d[type_value].model]]

\* ---------------------------------------------------------------- requests
Absent == "<absent>"
\* The raw value of the `type` query parameter / of the posted `type` field.
TypeParams == {Absent, "x"} \cup {FormatType(t) : t \in TypeValues}
\* The rest of the query string.
QueryRests == {<<>>, <<"q=1">>}
ObjectIds == {"1", "7"}
\* What base_model.objects.get(id=object_id) finds when the view asks: no object,
\* an object without the type field, or an object and the value of its type field.
NoRow == [found |-> FALSE, hasfield |-> FALSE, type |-> 0]
Rows == {NoRow, [found |-> TRUE, hasfield |-> FALSE, type |-> 0]}
        \cup {[found |-> TRUE, hasfield |-> TRUE, type |-> t] : t \in TypeValues}
\* The paths the catch-all URL r'^(?P<path>.+)$' hands to subclass_view.
Paths == {<<"1">>, <<"1", "7", "/", "x">>, <<"x", "/">>, <<"/", "1">>}

NoReq == [op |-> "-", type |-> Absent, rest |-> <<>>, method |-> "GET",
          posted |-> Absent, perm |-> FALSE, object_id |-> "-", row |-> NoRow,
          path |-> <<>>, resolves |-> FALSE, model |-> "-", model_admin |-> "-",
          later |-> FALSE]

\* int(request.GET.get('type', 0))
ParseType(raw) ==
  IF raw = Absent THEN [exc |-> "-", value |-> 0]
  ELSE IF IsDigit(raw) THEN [exc |-> "-", value |-> DigitValue(raw)]
  ELSE [exc |-> "ValueError", value |-> 0]

\* request.META['QUERY_STRING'], as its pieces
QueryString(r) ==
  LET t == IF r.type = Absent THEN <<>> ELSE <<"type=", r.type>>
  IN IF t # <<>> /\ r.rest # <<>> THEN t \o <<"&">> \o r.rest ELSE t \o r.rest

Redirect(url) == [NoOut EXCEPT !.kind = "redirect", !.url = url]
Render(choices) == [NoOut EXCEPT !.kind = "render", !.choices = choices]
Delegate(admin, view) == [NoOut EXCEPT !.kind = "delegate", !.admin = admin, !.view = view]

\* form.is_valid() of ProxyChoiceForm: bound only on POST, the field is required
\* and its value must be the text of one of the choices.
form_is_valid(r, choices) ==
  /\ r.method = "POST"
  /\ r.posted # Absent
  /\ \E i \in 1..Len(choices) : FormatType(choices[i][1]) = r.posted

extra_qs(r) == IF QueryString(r) # <<>> THEN <<"&">> \o QueryString(r) ELSE <<>>

\* add_type_view checking the permission only before it builds the form.
add_type_view_late_check(r, cm) ==
  LET c == get_child_type_choices(cm)
  IN IF c.exc # "-" THEN Raise(c.exc)
     ELSE IF Len(c.choices) = 1
       THEN Redirect(<<"?type=", FormatType(c.choices[1][1])>> \o extra_qs(r))
     ELSE IF ~r.perm THEN Raise("PermissionDenied")
     ELSE IF Len(c.choices) = 0 THEN Raise("IndexError")
     ELSE IF form_is_valid(r, c.choices)
       THEN Redirect(<<"?type=", r.posted>> \o extra_qs(r))
     ELSE Render(c.choices)

add_type_view(r, cm) ==
  IF ~r.perm THEN Raise("PermissionDenied")
  ELSE LET c == get_child_type_choices(cm)
       IN IF c.exc # "-" THEN Raise(c.exc)
          ELSE IF Len(c.choices) = 1
            THEN Redirect(<<"?type=", FormatType(c.choices[1][1])>> \o extra_qs(r))
          ELSE IF Len(c.choices) = 0 THEN Raise("IndexError")
          ELSE IF form_is_valid(r, c.choices)
            THEN Redirect(<<"?type=", r.posted>> \o extra_qs(r))
          ELSE Render(c.choices)

add_view(r, cm, cmodels, reg) ==
  LET p == ParseType(r.type)
  IN IF p.exc # "-" THEN Raise(p.exc)
     ELSE IF p.value = 0 THEN add_type_view(r, cm)
     ELSE LET a == _get_real_admin(p.value, cmodels, reg)
          IN IF a.exc # "-" THEN Raise(a.exc)
             ELSE [Delegate(a.admin, "add_view")
                     EXCEPT !.url = <<"?type=", FormatType(p.value)>>]

\* _get_type_by_object_id reading the field of a missing object (objects.filter(
\* ...).first() in place of objects.get): the AttributeError branch takes it.
_get_type_by_object_id_first(row) ==
  IF ~row.found \/ ~row.hasfield THEN [exc |-> "NotImplementedError", type |-> 0]
  ELSE [exc |-> "-", type |-> row.type]

_get_type_by_object_id(row) ==
  IF ~row.found THEN [exc |-> "Http404", type |-> 0]
  ELSE IF ~row.hasfield THEN [exc |-> "NotImplementedError", type |-> 0]
  ELSE [exc |-> "-", type |-> row.type]

\* The body shared by change_view and changeform_view(object_id).
ChangeBy(view, r, cmodels, reg) ==
  LET t == _get_type_by_object_id(r.row)
  IN IF t.exc # "-" THEN Raise(t.exc)
     ELSE LET a == _get_real_admin(t.type, cmodels, reg)
          IN IF a.exc # "-" THEN Raise(a.exc)
             ELSE [Delegate(a.admin, view) EXCEPT !.object_id = r.object_id]

change_view(r, cmodels, reg) == ChangeBy("change_view", r, cmodels, reg)

changeform_view(r, cmodels, reg) ==
  IF r.object_id # Absent THEN ChangeBy("changeform_view", r, cmodels, reg)
  ELSE [NoOut EXCEPT !.kind = "super", !.view = "changeform_view"]

\* path[0:pos] with pos = path.find('/'), the whole path when there is no '/'
RECURSIVE PathHead(_)
PathHead(path) ==
  IF path = <<>> \/ Head(path) = "/" THEN <<>>
  ELSE <<Head(path)>> \o PathHead(Tail(path))
\* long(s) raises ValueError unless s is a non-empty run of digits
LongExc(s) ==
  IF s # <<>> /\ \A i \in 1..Len(s) : IsDigit(s[i]) THEN "-" ELSE "ValueError"

subclass_view(r, cmodels, reg) ==
  LET p == ParseType(r.type)
      t == IF p.value # 0 THEN [exc |-> "-", type |-> p.value]
           ELSE IF LongExc(PathHead(r.path)) # "-" THEN [exc |-> "Http404", type |-> 0]
           ELSE _get_type_by_object_id(r.row)
  IN IF p.exc # "-" THEN Raise(p.exc)
     ELSE IF t.exc # "-" THEN Raise(t.exc)
     ELSE LET a == _get_real_admin(t.type, cmodels, reg)
          IN IF a.exc # "-" THEN Raise(a.exc)
             ELSE IF ~r.resolves THEN Raise("Http404")
             ELSE [Delegate(a.admin, "resolved") EXCEPT !.path = r.path]

\* get_urls: _lazy_setup, then the urls of the child admin of every key.
RECURSIVE ChildUrls(_, _, _)
ChildUrls(items, cmodels, reg) ==
  IF items = <<>> THEN [exc |-> "-", urls |-> <<>>]
  ELSE LET a == _get_real_admin(Head(items).key, cmodels, reg)
           rest == ChildUrls(Tail(items), cmodels, reg)
       IN IF a.exc # "-" THEN [exc |-> a.exc, urls |-> <<>>]
          ELSE IF rest.exc # "-" THEN rest
          ELSE [exc |-> "-", urls |-> <<a.admin>> \o rest.urls]

get_urls(cm, st) ==
  LET s == _lazy_setup(cm, st)
      u == ChildUrls(cm.items, s.st.cmodels, s.st.reg)
  IN IF s.exc # "-" THEN [st |-> s.st, out |-> Raise(s.exc)]
     ELSE IF get_child_models_exc(cm) # "-"
       THEN [st |-> s.st, out |-> Raise(get_child_models_exc(cm))]
     ELSE IF IterationExc(cm) # "-" THEN [st |-> s.st, out |-> Raise(IterationExc(cm))]
     ELSE IF u.exc # "-" THEN [st |-> s.st, out |-> Raise(u.exc)]
     ELSE [st |-> s.st, out |-> [Return EXCEPT !.urls = u.urls]]

\* ---------------------------------------------------------------- actions
\* Calls are synchronous and one at a time: a call is made when no call is in
\* progress (req = NoReq), req and out hold the call and what it ended in, and
\* Respond hands the result back.  attempted records that _lazy_setup has been
\* entered before, and req.later that a setup call is not the first one.
State == [is_setup |-> _is_setup, reg |-> _child_registry, cmodels |-> _child_models]
Idle == req = NoReq

Init ==
  /\ child_models \in Configs
  /\ _is_setup = FALSE
  /\ _child_registry = EmptyRegistry
  /\ _child_models = UnsetChildModels
  /\ attempted = FALSE
  /\ req = NoReq
  /\ out = NoOut

SetState(st) ==
  /\ _is_setup' = st.is_setup
  /\ _child_registry' = st.reg
  /\ _child_models' = st.cmodels

Respond ==
  /\ ~Idle
  /\ req' = NoReq
  /\ out' = NoOut
  /\ UNCHANGED <<child_models, _is_setup, _child_registry, _child_models, attempted>>

RegisterChild ==
  /\ Idle
  /\ \E model \in Models, model_admin \in AdminClasses :
       LET r == register_child(model, model_admin, _is_setup, _child_registry)
       IN /\ _child_registry' = r.reg
          /\ req' = [NoReq EXCEPT !.op = "register_child", !.model = model,
                                  !.model_admin = model_admin]
          /\ out' = IF r.exc # "-" THEN Raise(r.exc) ELSE Return
  /\ UNCHANGED <<child_models, _is_setup, _child_models, attempted>>

LazySetup ==
  /\ Idle
  /\ LET s == _lazy_setup(child_models, State)
     IN /\ SetState(s.st)
        /\ out' = IF s.exc # "-" THEN Raise(s.exc) ELSE Return
  /\ attempted' = TRUE
  /\ req' = [NoReq EXCEPT !.op = "_lazy_setup", !.later = attempted]
  /\ UNCHANGED child_models

GetUrls ==
  /\ Idle
  /\ LET g == get_urls(child_models, State)
     IN /\ SetState(g.st)
        /\ out' = g.out
  /\ attempted' = TRUE
  /\ req' = [NoReq EXCEPT !.op = "get_urls", !.later = attempted]
  /\ UNCHANGED child_models

GetChildTypeChoices ==
  /\ Idle
  /\ LET c == get_child_type_choices(child_models)
     IN out' = IF c.exc # "-" THEN Raise(c.exc) ELSE [Return EXCEPT !.choices = c.choices]
  /\ req' = [NoReq EXCEPT !.op = "get_child_type_choices"]
  /\ UNCHANGED <<child_models, _is_setup, _child_registry, _child_models, attempted>>

\* The requests of the type-selection step; a GET posts nothing.
FormRequests(op, types) ==
  {r \in {[NoReq EXCEPT !.op = op, !.type = t, !.rest = q, !.method = m,
                        !.posted = c, !.perm = p] :
            t \in types, q \in QueryRests, m \in {"GET", "POST"},
            c \in TypeParams, p \in BOOLEAN} :
     r.method = "GET" => r.posted = Absent}

\* add_view reads the method, the posted type and the permission only on its way
\* through add_type_view, that is when the type parameter is absent or "0".
AddView ==
  /\ Idle
  /\ \E r \in FormRequests("add_view", {Absent, "0"})
            \cup {[NoReq EXCEPT !.op = "add_view", !.type = t, !.rest = q] :
                    t \in TypeParams \ {Absent, "0"}, q \in QueryRests} :
       /\ req' = r
       /\ out' = add_view(r, child_models, _child_models, _child_registry)
  /\ UNCHANGED <<child_models, _is_setup, _child_registry, _child_models, attempted>>

AddTypeView ==
  /\ Idle
  /\ \E r \in FormRequests("add_type_view", {Absent, "1"}) :
       /\ req' = r
       /\ out' = add_type_view(r, child_models)
  /\ UNCHANGED <<child_models, _is_setup, _child_registry, _child_models, attempted>>

ChangeView ==
  /\ Idle
  /\ \E o \in ObjectIds, row \in Rows :
       LET r == [NoReq EXCEPT !.op = "change_view", !.object_id = o, !.row = row]
       IN /\ req' = r
          /\ out' = change_view(r, _child_models, _child_registry)
  /\ UNCHANGED <<child_models, _is_setup, _child_registry, _child_models, attempted>>

ChangeformView ==
  /\ Idle
  /\ \E o \in ObjectIds \cup {Absent}, row \in Rows :
       LET r == [NoReq EXCEPT !.op = "changeform_view", !.object_id = o, !.row = row]
       IN /\ o = Absent => row = NoRow
          /\ req' = r
          /\ out' = changeform_view(r, _child_models, _child_registry)
  /\ UNCHANGED <<child_models, _is_setup, _child_registry, _child_models, attempted>>

\* subclass_view looks the object up only when the type parameter is absent or
\* "0" and the head of the path is a number.
SubclassView ==
  /\ Idle
  /\ \E t \in TypeParams, path \in Paths, row \in Rows, res \in BOOLEAN :
       LET r == [NoReq EXCEPT !.op = "subclass_view", !.type = t, !.path = path,
                              !.row = row, !.resolves = res]
       IN /\ (t \notin {Absent, "0"} \/ LongExc(PathHead(path)) # "-") => row = NoRow
          /\ req' = r
          /\ out' = subclass_view(r, _child_models, _child_registry)
  /\ UNCHANGED <<child_models, _is_setup, _child_registry, _child_models, attempted>>

\* The registration and setup calls (register_child, _lazy_setup, get_urls,
\* get_child_type_choices).
NextSetup ==
  \/ RegisterChild
  \/ LazySetup
  \/ GetUrls
  \/ GetChildTypeChoices
  \/ Respond

\* The add views on top of registration and setup.
NextAdd ==
  \/ RegisterChild
  \/ GetUrls
  \/ AddView
  \/ AddTypeView
  \/ Respond

\* The change views on top of registration and setup.
NextChange ==
  \/ RegisterChild
  \/ GetUrls
  \/ ChangeView
  \/ ChangeformView
  \/ SubclassView
  \/ Respond

Next ==
  \/ RegisterChild
  \/ LazySetup
  \/ GetUrls
  \/ GetChildTypeChoices
  \/ AddView
  \/ AddTypeView
  \/ ChangeView
  \/ ChangeformView
  \/ SubclassView
  \/ Respond

Spec == Init /\ [][Next]_vars
SpecSetup == Init /\ [][NextSetup]_vars
SpecAdd == Init /\ [][NextAdd]_vars
SpecChange == Init /\ [][NextChange]_vars

\* ---------------------------------------------------------------- properties
ConfiguredKeys == {child_models.items[i].key : i \in 1..Len(child_models.items)}
\* The child admin of type value n: an instance, made by the child admin site, of
\* the Admin of the item of child_models that has key n (the last such item).
ChildAdminOf(n) ==
  LET last == CHOOSE i \in 1..Len(child_models.items) :
                /\ child_models.items[i].key = n
                /\ \A j \in i + 1..Len(child_models.items) : child_models.items[j].key # n
  IN AdminInstance("child", child_models.items[last].model, child_models.items[last].admin)
\* The type value of an add_view request, when its parameter parses.
AddType == ParseType(req.type).value
AddViewOfKey ==
  /\ req.op = "add_view"
  /\ _is_setup
  /\ ParseType(req.type).exc = "-"
  /\ AddType \in ConfiguredKeys
DelegatedTo(view, admin) ==
  /\ out.kind = "delegate"
  /\ out.view = view
  /\ out.admin = admin

\* C1 as claimed: after setup, add_view with type=N delegates to add_view of the
\* child admin of N for every key N of child_models.
C1_EveryKeyDelegates == AddViewOfKey => DelegatedTo("add_view", ChildAdminOf(AddType))

\* C1 as amended: after setup, add_view with type=N delegates to add_view of the
\* child admin registered for the model paired with N, and to no other admin,
\* for every key N of child_models other than 0.
C1_NonzeroKeyDelegates ==
  (AddViewOfKey /\ AddType # 0) => DelegatedTo("add_view", ChildAdminOf(AddType))

\* An add_view for the key of proxy A, which the parent's site also has an admin for.
C1_Witness ==
  /\ AddViewOfKey
  /\ AddType # 0
  /\ out.kind = "delegate"
  /\ out.admin.model = "A"
  /\ admin_site_registry["A"] # NoAdmin

ChangeOfExisting ==
  /\ req.op = "change_view"
  /\ _is_setup
  /\ req.row.found

\* C2 as claimed: after setup, change_view of every existing object delegates to
\* change_view of the child admin of the object's type value, with the object_id.
C2_EveryObjectDelegates ==
  (ChangeOfExisting /\ req.row.hasfield) =>
    /\ out.kind = "delegate"
    /\ out.view = "change_view"
    /\ out.object_id = req.object_id

\* C2 as amended: after setup, change_view of every existing object whose type
\* field holds a key of child_models delegates to change_view of the child admin
\* of that key, a function of the type value alone, with the same object_id.
C2_ConfiguredTypeDelegates ==
  (ChangeOfExisting /\ req.row.hasfield /\ req.row.type \in ConfiguredKeys) =>
    /\ DelegatedTo("change_view", ChildAdminOf(req.row.type))
    /\ out.object_id = req.object_id

\* A change_view of an object of a nonzero configured type, two keys configured.
C2_Witness ==
  /\ ChangeOfExisting
  /\ req.row.hasfield
  /\ req.row.type # 0
  /\ Cardinality(ConfiguredKeys) = 2
  /\ out.kind = "delegate"
  /\ out.object_id = "7"

\* The type value a view hands to _get_real_admin, -1 when it does not get there.
NoType == 0 - 1
RealAdminType ==
  IF req.op = "add_view" /\ ParseType(req.type).exc = "-" /\ AddType # 0 THEN AddType
  ELSE IF req.op \in {"change_view", "changeform_view"} /\ req.object_id # Absent
          /\ req.row.found /\ req.row.hasfield THEN req.row.type
  ELSE IF req.op = "subclass_view" /\ ParseType(req.type).exc = "-" /\ AddType # 0
    THEN AddType
  ELSE IF req.op = "subclass_view" /\ ParseType(req.type).exc = "-"
          /\ LongExc(PathHead(req.path)) = "-" /\ req.row.found /\ req.row.hasfield
    THEN req.row.type
  ELSE NoType

\* C3: after setup, a request whose type value is no key of child_models ends in
\* Http404 and calls no child admin view.
C3_UnknownTypeIs404 ==
  (_is_setup /\ RealAdminType # NoType /\ RealAdminType \notin ConfiguredKeys) =>
    /\ out.kind = "raise"
    /\ out.exc = "Http404"

RegisterChildCase(is_setup, r) ==
  /\ r.op = "register_child"
  /\ \/ is_setup
     \/ ~IsProxyOfBase(r.model)
     \/ ~IsModelAdmin(r.model_admin)

\* C4: a register_child call after setup raises RuntimeError, one before setup
\* with a model that is no subclass of base_model or an admin class that is no
\* ModelAdmin raises TypeError, and both leave the child registry as it was.
C4_RegisterChildRefuses ==
  [][RegisterChildCase(_is_setup, req') =>
       /\ out' = Raise(IF _is_setup THEN "RuntimeError" ELSE "TypeError")
       /\ _child_registry' = _child_registry]_vars

\* After setup, a refused registration of a proxy the registry has no admin for.
C4_Witness ==
  /\ req.op = "register_child"
  /\ _is_setup
  /\ IsProxyOfBase(req.model)
  /\ req.model_admin = "ProxyAdmin"
  /\ _child_registry[req.model] = NoAdmin
  /\ out.exc = "RuntimeError"

\* Every configured Model is registered on the child site with its Admin.
ChildrenRegistered ==
  \A i \in 1..Len(child_models.items) :
    _child_registry[child_models.items[i].model] =
      AdminInstance("child", child_models.items[i].model, child_models.items[i].admin)

\* A configuration as the docstring describes it: a dictionary of (Model, Admin)
\* tuples, each a proxy of base_model with a working ModelAdmin, no model twice.
WellFormedDict ==
  /\ child_models.shape = "dict"
  /\ \A i \in 1..Len(child_models.items) :
       /\ IsProxyOfBase(child_models.items[i].model)
       /\ child_models.items[i].admin = "ProxyAdmin"
       /\ \A j \in 1..Len(child_models.items) :
            child_models.items[i].model = child_models.items[j].model => i = j

\* C5: with child_models a dictionary as the docstring says, _lazy_setup on a
\* child site that has no registration yet registers every Model with its Admin,
\* and get_child_type_choices returns one (type value, verbose name) choice per
\* entry.
C5_DictConfigured ==
  [][/\ (WellFormedDict /\ req'.op = "_lazy_setup" /\ _child_registry = EmptyRegistry) =>
          /\ out'.kind = "return"
          /\ ChildrenRegistered'
     /\ (WellFormedDict /\ req'.op = "get_child_type_choices") =>
          /\ out'.kind = "return"
          /\ Len(out'.choices) = Len(child_models.items)
          /\ \A i \in 1..Len(child_models.items) :
               out'.choices[i] = <<child_models.items[i].key,
                                   verbose_name(child_models.items[i].model)>>]_vars

\* A request that reaches add_type_view: add_type_view itself, or add_view with
\* no type parameter or type=0.
TypeSelection ==
  \/ req.op = "add_type_view"
  \/ req.op = "add_view" /\ req.type \in {Absent, "0"}

\* C6: add_type_view for a user without add permission raises PermissionDenied
\* and does nothing else, whatever the method, the query string and the number
\* of child types.
C6_PermissionFirst == (TypeSelection /\ ~req.perm) => out = Raise("PermissionDenied")

\* A valid POST to a single-type configuration, refused.
C6_Witness ==
  /\ req.op = "add_type_view"
  /\ ~req.perm
  /\ req.method = "POST"
  /\ req.posted = "1"
  /\ child_models.shape = "pairs"
  /\ ConfiguredKeys = {1}
  /\ out.exc = "PermissionDenied"

ChosenIsOffered ==
  /\ req.method = "POST"
  /\ \E k \in ConfiguredKeys : FormatType(k) = req.posted

\* C7: add_view with no type parameter or type=0, for a user who may add, never
\* delegates; with one child type it redirects to ?type=<key> and the original
\* query string after "&"; with several it redirects to ?type=<chosen> exactly on
\* a POST of an offered type, and renders the type-choice form otherwise.
C7_TypeSelection ==
  (req.op = "add_view" /\ req.type \in {Absent, "0"} /\ req.perm) =>
    /\ out.kind # "delegate"
    /\ Len(child_models.items) = 1 =>
         out = Redirect(<<"?type=", FormatType(child_models.items[1].key)>>
                        \o (IF QueryString(req) = <<>> THEN <<>>
                            ELSE <<"&">> \o QueryString(req)))
    /\ Len(child_models.items) > 1 =>
         IF ChosenIsOffered
           THEN out.kind = "redirect" /\ SubSeq(out.url, 1, 2) = <<"?type=", req.posted>>
           ELSE out.kind = "render"

\* C8: change_view, changeform_view with an object_id and subclass_view without
\* a type parameter, for an object_id that matches no object, raise Http404 and
\* call no child admin view, set up or not.
C8_MissingObjectIs404 ==
  ( /\ ~req.row.found
    /\ \/ req.op = "change_view"
       \/ req.op = "changeform_view" /\ req.object_id # Absent
       \/ req.op = "subclass_view" /\ req.type = Absent )
  => out = Raise("Http404")

\* A change_view of a missing object before setup, where no child admin can be
\* selected.
C8_Witness ==
  /\ req.op = "change_view"
  /\ ~req.row.found
  /\ ~_is_setup
  /\ out.exc = "Http404"

IsSetupCall(r) == r.op \in {"_lazy_setup", "get_urls"}

\* C9: _is_setup never goes back to false; it becomes true in a _lazy_setup or
\* get_urls call, the first one, which has registered every child; no admin the
\* child site made is replaced; and every _lazy_setup or get_urls call after the
\* first leaves the child registry and _child_models as they were.
C9_SetupOnce ==
  [][/\ _is_setup => _is_setup'
     /\ (~_is_setup /\ _is_setup') =>
          /\ IsSetupCall(req')
          /\ ~attempted
          /\ ChildrenRegistered'
     /\ \A m \in AllModels :
          _child_registry[m].site = "child" => _child_registry'[m] = _child_registry[m]
     /\ (IsSetupCall(req') /\ attempted) =>
          /\ _child_registry' = _child_registry
          /\ _child_models' = _child_models]_vars

\* A second setup call on an admin that is set up with two children.
C9_Witness ==
  /\ req.op = "_lazy_setup"
  /\ req.later
  /\ _is_setup
  /\ Len(child_models.items) = 2
  /\ out.kind = "return"
====
